---- MODULE Spec2Model ----
(***************************************************************************)
(* A model of xmallow (src/xmallow/__init__.py): field descriptors, the    *)
(* schema registry built by SchemaMeta, schema instances, and the load     *)
(* orchestration of Field.load / Schema.load over lxml-like element trees. *)
(***************************************************************************)
EXTENDS Integers, Sequences, FiniteSets, TLC

\* ------------------------------------------------------------------ bounds
MaxMatch == 2       \* elements one path matches under one parent
MaxObjects == 5     \* descriptors, schema types and schema instances constructed in a run
MaxCalls == 2       \* load calls are made while the producer's counter is below this

\* ------------------------------------------------------------------ python values
None == [t |-> "None"]
StrV(s) == [t |-> "str", s |-> s]
IntV(n) == [t |-> "int", n |-> n]
FloatV(n) == [t |-> "float", x |-> n]
BoolV(b) == [t |-> "bool", b |-> b]
ListV(items) == [t |-> "list", items |-> items]
DictV(type, items) == [t |-> "dict", type |-> type, items |-> items]

\* An exception: its class and the parts of its message.
Lit(s) == [lit |-> s]
Err(cls, msg) == [cls |-> cls, msg |-> msg]
NoErr == Err("", <<>>)

\* An ordered mapping is a sequence of <<key, value>> pairs with distinct keys.
Keys(m) == [i \in DOMAIN m |-> m[i][1]]
HasKey(m, k) == \E i \in DOMAIN m : m[i][1] = k
Get(m, k) == m[CHOOSE i \in DOMAIN m : m[i][1] = k][2]
\* dict.__setitem__: an existing key keeps its position, a new key goes last.
DictSet(m, k, v) ==
    IF HasKey(m, k)
    THEN [i \in DOMAIN m |-> IF m[i][1] = k THEN <<k, v>> ELSE m[i]]
    ELSE Append(m, <<k, v>>)

RECURSIVE DictUpdate(_, _)
\* dict.update / a dict comprehension over a chain of items: DictSet per item, in order.
DictUpdate(m, items) ==
    IF items = <<>> THEN m
    ELSE DictUpdate(DictSet(m, items[1][1], items[1][2]), Tail(items))

\* ------------------------------------------------------------------ element trees
Paths == {"A", "B"}
XPath(p) == [xpath |-> p]
XPaths(ps) == [xpaths |-> ps]

NoKids == [p \in Paths |-> <<>>]
Elem(id, text, attrib, kids) == [id |-> id, text |-> text, attrib |-> attrib, kids |-> kids]
IsElement(x) == "kids" \in DOMAIN x

\* The two element shapes the documents are built from.
\*   "full": numeric text, an id attribute, children under both paths
\*   "bare": non-numeric text, no attribute, no child under A
ElemKinds == {"full", "bare"}
MkElem(id, kind) ==
    IF kind = "full"
    THEN Elem(id, StrV("1"), <<<<"id", "7">>>>,
              [p \in Paths |->
                 IF p = "A" THEN <<Elem(id \o <<"A", 1>>, StrV("7"), <<>>, NoKids)>>
                 ELSE <<Elem(id \o <<"B", 1>>, StrV("x"), <<>>, NoKids),
                        Elem(id \o <<"B", 2>>, StrV("1"), <<<<"id", "1">>>>, NoKids)>>])
    ELSE Elem(id, StrV("x"), <<>>,
              [p \in Paths |->
                 IF p = "A" THEN <<>>
                 ELSE <<Elem(id \o <<"B", 1>>, None, <<>>, NoKids)>>])

\* The documents: up to MaxMatch children under A, each of either shape, and up to
\* MaxMatch bare children under B.
KindSeqs == UNION {[1..n -> ElemKinds] : n \in 0..MaxMatch}
BareSeqs == {[i \in 1..n |-> "bare"] : n \in 0..MaxMatch}
Children(p, ks) == [i \in DOMAIN ks |-> MkElem(<<p, i>>, ks[i])]
Trees == {Elem(<<>>, None, <<>>,
               [p \in Paths |-> IF p = "A" THEN Children("A", ka) ELSE Children("B", kb)]) :
            ka \in KindSeqs, kb \in BareSeqs}

\* root.xpath(path): the elements the path matches, in document order.
xpath(root, p) == root.kids[p]

\* ------------------------------------------------------------------ state
VARIABLES
    fields,          \* the Field objects constructed so far (a descriptor's id is its index)
    given,           \* per descriptor, the extra keyword arguments its constructor call was passed
    Field_meta,      \* the dict bound to the class attribute Field.meta
    classes,         \* the schema types defined so far; classes[1] is Schema itself
    instances,       \* the Schema objects constructed so far
    Schema_context,  \* the dict bound to the class attribute Schema.context
    calls,           \* how many times the stateful default producer has been invoked
    result           \* the last call made and its outcome

vars == <<fields, given, Field_meta, classes, instances, Schema_context, calls, result>>

Heap == [fields |-> fields, given |-> given, Field_meta |-> Field_meta, classes |-> classes,
         instances |-> instances, Schema_context |-> Schema_context]

\* class Schema: _fields = {}, and post_load returns its argument
SchemaRoot == [base |-> 0, dict |-> <<>>, post_load |-> "identity", _fields |-> <<>>]

EmptyHeap == [fields |-> <<>>, given |-> <<>>, Field_meta |-> <<>>, classes |-> <<SchemaRoot>>,
              instances |-> <<>>, Schema_context |-> <<>>]

\* ------------------------------------------------------------------ casts and defaults
CastNone == [k |-> "None"]
Prim(f) == [k |-> "prim", f |-> f]                \* str, int, float
Func(f) == [k |-> "func", f |-> f]                \* a types.FunctionType callback
FieldObj(d) == [k |-> "field", ref |-> d]         \* a Field instance
SchemaObj(s) == [k |-> "schema", ref |-> s]       \* a Schema instance
SchemaCls(c) == [k |-> "schemacls", ref |-> c]    \* a Schema subclass, not instantiated

ExcClass(cls) == [k |-> "exc_class", cls |-> cls]
ExcInst(e) == [k |-> "exc_inst", err |-> e]
Producer(f) == [k |-> "producer", f |-> f]
Literal(v) == [k |-> "value", v |-> v]

\* The descriptor classes: Field, First, Attribute, Boolean, String, Int, Float, DateTime,
\* List, Nested.

\* The class attribute `cast` a descriptor class resolves to.
ClassCast(cls) ==
    CASE cls = "Int" -> Prim("int")
      [] cls = "Float" -> Prim("float")
      [] OTHER -> Prim("str")

\* The class attribute `many` a descriptor class resolves to.
ClassMany(cls) == cls = "List"

KwOr(kwargs, key, dflt) == IF HasKey(kwargs, key) THEN Get(kwargs, key) ELSE dflt

\* The kwargs of a constructor call that Field.__init__ does not set as attributes.
RECURSIVE Extras(_)
Extras(kwargs) ==
    IF kwargs = <<>> THEN <<>>
    ELSE IF kwargs[1][1] \in {"default", "many", "required"}
         THEN Extras(Tail(kwargs))
         ELSE <<kwargs[1]>> \o Extras(Tail(kwargs))

RECURSIVE MetaUpdates(_, _)
\* self.meta.update(key=value), once per extra keyword argument, on the dict self.meta
\* resolves to: the keyword passed to update is the literal name `key`.
MetaUpdates(meta, extras) ==
    IF extras = <<>> THEN meta
    ELSE MetaUpdates(DictSet(meta, "key", extras[1][2]), Tail(extras))

\* Field.__init__(self, path, cast=None, **kwargs): the descriptor's attributes after it.
\* No instance attribute `meta` is ever assigned: self.meta is Field.meta.
Field_init(h, cls, path, cast, kwargs) ==
    LET obj == [cls |-> cls,
                path |-> path,
                cast |-> IF cast = CastNone THEN ClassCast(cls) ELSE cast,
                default |-> KwOr(kwargs, "default", ExcClass("MissingFieldError")),
                many |-> KwOr(kwargs, "many", ClassMany(cls)),
                required |-> KwOr(kwargs, "required", "None"),
                attr |-> "None"]
    IN [h EXCEPT !.fields = Append(@, obj),
                 !.given = Append(@, Extras(kwargs)),
                 !.Field_meta = MetaUpdates(@, Extras(kwargs))]

\* The descriptor constructors. `attr` is Attribute's keyword-only parameter ("None" when
\* not passed); for Nested, `cast` is its positional `schema` parameter.
Construct(h, cls, path, cast, attr, kwargs) ==
    CASE cls = "Attribute" ->
           LET h1 == Field_init(h, cls, path, cast, kwargs)
           IN IF attr = "None"
              \* raise ValueError: the object is dropped, the update of Field.meta stays
              THEN [h EXCEPT !.Field_meta = h1.Field_meta]
              ELSE [h1 EXCEPT !.fields[Len(h1.fields)].attr = attr]
      [] cls = "Nested" ->
           LET h1 == Field_init(h, cls, path, CastNone, kwargs)
           IN [h1 EXCEPT !.fields[Len(h1.fields)].cast = cast]
      [] OTHER -> Field_init(h, cls, path, cast, kwargs)

\* The meta dict seen through descriptor d (attribute lookup falls through to the class).
Meta(d) == Field_meta

\* ------------------------------------------------------------------ outcomes of a call
\* A world is what a call can change besides returning: the producer's counter, and the
\* trace of what was invoked. An outcome is a return (ok) or a raise, with the world after.
World(n) == [calls |-> n, log |-> <<>>]
Logged(w, ev) == [w EXCEPT !.log = Append(@, ev)]
Ok(v, w) == [ok |-> TRUE, val |-> v, err |-> NoErr, src |-> "", w |-> w]
Raise(e, src, w) == [ok |-> FALSE, val |-> None, err |-> e, src |-> src, w |-> w]

Numerals == ("0" :> 0) @@ ("1" :> 1) @@ ("7" :> 7)

\* str(x), int(x), float(x) on an element's text or an attribute's value
CallPrim(f, v, w) ==
    CASE f = "str" -> IF v = None THEN Ok(StrV("None"), w) ELSE Ok(v, w)
      [] f = "int" ->
           IF v = None THEN Raise(Err("TypeError", <<Lit("int() argument")>>), "extract", w)
           ELSE IF v.s \in DOMAIN Numerals THEN Ok(IntV(Numerals[v.s]), w)
           ELSE Raise(Err("ValueError", <<Lit("invalid literal for int()"), Lit(v.s)>>), "extract", w)
      [] f = "float" ->
           IF v = None THEN Raise(Err("TypeError", <<Lit("float() argument")>>), "extract", w)
           ELSE IF v.s \in DOMAIN Numerals THEN Ok(FloatV(Numerals[v.s]), w)
           ELSE Raise(Err("ValueError", <<Lit("could not convert string to float"), Lit(v.s)>>), "extract", w)

\* The callbacks (plain functions) a schema author passes as cast:
\*   tag_text: lambda tag: tag.text      fail: raises ValueError
\*   missing:  raises MissingFieldError
CallFunction(f, arg, w) ==
    CASE f = "tag_text" ->
           IF IsElement(arg) THEN Ok(arg.text, w)
           ELSE Raise(Err("AttributeError", <<Lit("text")>>), "extract", w)
      [] f = "fail" -> Raise(Err("ValueError", <<Lit("cast failed")>>), "extract", w)
      [] f = "missing" -> Raise(Err("MissingFieldError", <<Lit("from cast")>>), "extract", w)

\* The call expression cast(arg), for whatever object cast is.
CallCast(cast, arg, w) ==
    CASE cast.k = "prim" -> CallPrim(cast.f, arg, w)
      [] cast.k = "func" -> CallFunction(cast.f, arg, w)
      \* Schema.__init__(self, **kwargs) accepts no positional argument
      [] cast.k = "schemacls" ->
           Raise(Err("TypeError", <<Lit("__init__() takes 1 positional argument but 2 were given")>>),
                 "extract", w)
      \* a Field or Schema instance is not callable
      [] OTHER -> Raise(Err("TypeError", <<Lit("object is not callable")>>), "extract", w)

truthy == {"1", "true", "yes", "Success", "success", "SUCCESS", "ok"}
falsy == {"0", "false", "no", "Failure", "failure", "FAILURE", "error"}

Boolean_extract(tag, w) ==
    LET text == tag.text
    IN IF text # None /\ text.s \in truthy THEN Ok(BoolV(TRUE), w)
       ELSE IF text # None /\ text.s \in falsy THEN Ok(BoolV(FALSE), w)
       ELSE Ok(BoolV(text # None /\ text.s # ""), w)

RECURSIVE FirstTags(_, _)
FirstTags(root, paths) ==
    IF paths = <<>> THEN <<>>
    ELSE LET tags == xpath(root, paths[1])
         IN IF tags # <<>> THEN tags ELSE FirstTags(root, Tail(paths))

\* tags[:1]
Prefix1(tags) == IF tags = <<>> THEN <<>> ELSE <<tags[1]>>

\* Mutant: the base variant keeps only the first match whatever `many` is.
get_tags_truncating(d, root) ==
    IF fields[d].cls = "First"
    THEN FirstTags(root, fields[d].path.xpaths)
    ELSE Prefix1(xpath(root, fields[d].path.xpath))

\* Field.get_tags and First.get_tags
get_tags(d, root) ==
    IF fields[d].cls = "First"
    THEN FirstTags(root, fields[d].path.xpaths)
    ELSE LET tags == xpath(root, fields[d].path.xpath)
         IN IF fields[d].many THEN tags ELSE Prefix1(tags)

\* Mutant: the producer's first output is kept and returned again on later calls.
ResolveDefault_cached(d, w) ==
    LET default == fields[d].default
    IN CASE default.k = "exc_inst" -> Raise(default.err, "default", w)
         [] default.k = "exc_class" ->
              Raise(Err(default.cls, <<Lit("No results: "), fields[d].path>>), "default", w)
         [] default.k = "producer" ->
              IF w.calls > 0 THEN Ok(IntV(1), w)
              ELSE Ok(IntV(w.calls + 1), [w EXCEPT !.calls = @ + 1])
         [] OTHER -> Ok(default.v, w)

\* Field.load, lines 76-91: results is empty.
ResolveDefault(d, w) ==
    LET default == fields[d].default
    IN CASE default.k = "exc_inst" -> Raise(default.err, "default", w)
         [] default.k = "exc_class" ->
              Raise(Err(default.cls, <<Lit("No results: "), fields[d].path>>), "default", w)
         \* callable(default): the producer is a counter, each call returns the next number
         [] default.k = "producer" -> Ok(IntV(w.calls + 1), [w EXCEPT !.calls = @ + 1])
         [] OTHER -> Ok(default.v, w)

\* Mutant: with many=false the last result is returned instead of the first.
Select_last(d, results) ==
    IF ~fields[d].many THEN results[Len(results)] ELSE ListV(results)

\* Field.load, lines 93-98: results is not empty.
Select(d, results) ==
    IF ~fields[d].many THEN results[1] ELSE ListV(results)

\* Mutant: `field.required is not None` in place of `field.required is True`.
Suppressed_unless_set(required, ignore_missing) ==
    ~(required # "None" \/ ~ignore_missing)

\* Whether Schema.load swallows a MissingFieldError of a field (line 237 decides the raise).
Suppressed(required, ignore_missing) ==
    ~(required = "True" \/ ~ignore_missing)

\* Mutant: `except Exception` in place of `except MissingFieldError`.
Swallows_any(e, required, ignore_missing) ==
    Suppressed(required, ignore_missing)

\* The try/except of Schema.load, lines 233-238: whether error e of field.load is swallowed.
Swallows(e, required, ignore_missing) ==
    e.cls = "MissingFieldError" /\ Suppressed(required, ignore_missing)

ElemInput(e) == [k |-> "elem", e |-> e]
TextInput(e) == [k |-> "str", e |-> e]       \* the text of a well-formed document
Malformed == [k |-> "str", bad |-> TRUE]       \* text etree.fromstring rejects

\* The value of F at v, with v evaluated once (the result of a call is used many times).
Then(v, F(_)) == CHOOSE x \in {F(r) : r \in {v}} : TRUE

RECURSIVE Field_load(_, _, _), Field_extract(_, _, _), ExtractAll(_, _, _, _, _),
          Schema_load(_, _, _), LoadFields(_, _, _, _, _)

\* Field.extract and its overrides in Attribute, Boolean and DateTime
Field_extract(d, tag, w) ==
    LET f == fields[d]
        w1 == Logged(w, [e |-> "extract", d |-> d, tag |-> tag.id])
    IN CASE f.cls = "Attribute" ->
              IF HasKey(tag.attrib, f.attr)
              THEN CallCast(f.cast, StrV(Get(tag.attrib, f.attr)), w1)
              ELSE Raise(Err("MissingFieldError", <<>>), "extract", w1)
         [] f.cls = "Boolean" -> Boolean_extract(tag, w1)
         [] f.cls = "DateTime" -> Raise(Err("NotImplementedError", <<>>), "extract", w1)
         [] OTHER ->
              CASE f.cast.k = "field" -> Field_load(f.cast.ref, tag, w1)
                [] f.cast.k = "schema" -> Schema_load(f.cast.ref, ElemInput(tag), w1)
                [] f.cast.k = "func" -> CallFunction(f.cast.f, tag, w1)
                [] OTHER -> CallCast(f.cast, tag.text, w1)

\* results = [self.extract(tag) for tag in tags]: in order, the first raise ends it.
ExtractAll(d, tags, i, acc, w) ==
    IF i > Len(tags) THEN Ok(acc, w)
    ELSE Then(Field_extract(d, tags[i], w),
              LAMBDA r : IF r.ok THEN ExtractAll(d, tags, i + 1, Append(acc, r.val), r.w)
                         ELSE Raise(r.err, "extract", r.w))

Field_load(d, tag, w) ==
    Then(ExtractAll(d, get_tags(d, tag), 1, <<>>, w),
         LAMBDA r : IF ~r.ok THEN r
                    ELSE IF r.val = <<>> THEN ResolveDefault(d, r.w)
                    ELSE Ok(Select(d, r.val), r.w))

\* The trace entry of one iteration of Schema.load's loop: the field and how its load ended.
FieldEvent(s, name, d, r) ==
    [e |-> "field", s |-> s, name |-> name, d |-> d, ok |-> r.ok, err |-> r.err.cls,
     src |-> r.src]

RECURSIVE LoadFields_deferring(_, _, _, _, _)
\* Mutant: an unsuppressed error is raised only after the remaining fields were loaded.
LoadFields_deferring(s, tree, i, data, w) ==
    LET reg == classes[instances[s].cls]._fields
    IN IF i > Len(reg) THEN Ok(data, w)
       ELSE LET name == reg[i][1]
                d == reg[i][2]
            IN Then(Field_load(d, tree, w),
                    LAMBDA r :
                      LET ev == FieldEvent(s, name, d, r)
                      IN IF r.ok
                         THEN LoadFields_deferring(s, tree, i + 1, DictSet(data, name, r.val),
                                                   Logged(r.w, ev))
                         ELSE IF Swallows(r.err, fields[d].required,
                                          instances[s].ignore_missing)
                              THEN LoadFields_deferring(s, tree, i + 1, data, Logged(r.w, ev))
                              ELSE Raise(r.err, "field",
                                         LoadFields_deferring(s, tree, i + 1, data,
                                                              Logged(r.w, ev)).w))

\* The loop of Schema.load over self._fields.items(), from the i-th entry on.
LoadFields(s, tree, i, data, w) ==
    LET reg == classes[instances[s].cls]._fields
    IN IF i > Len(reg) THEN Ok(data, w)
       ELSE LET name == reg[i][1]
                d == reg[i][2]
            IN Then(Field_load(d, tree, w),
                    LAMBDA r :
                      LET ev == FieldEvent(s, name, d, r)
                      IN IF r.ok
                         THEN LoadFields(s, tree, i + 1, DictSet(data, name, r.val),
                                         Logged(r.w, ev))
                         ELSE IF Swallows(r.err, fields[d].required,
                                          instances[s].ignore_missing)
                              THEN LoadFields(s, tree, i + 1, data, Logged(r.w, ev))
                              ELSE Raise(r.err, "field", Logged(r.w, ev)))

Schema_load(s, xml, w) ==
    IF xml.k = "str" /\ "bad" \in DOMAIN xml
    THEN Raise(Err("XMLSyntaxError", <<>>), "parse", w)
    ELSE Then(LoadFields(s, xml.e, 1, <<>>, w),
              LAMBDA r :
                IF ~r.ok THEN r
                ELSE LET w1 == Logged(r.w, [e |-> "post_load", s |-> s])
                     IN IF classes[instances[s].cls].post_load = "identity"
                        THEN Ok(DictV(instances[s].dict_type, r.val), w1)
                        \* a post_load override that returns None
                        ELSE Raise(Err("TypeError", <<Lit("post_load() must return a dict")>>),
                                   "post_load", w1))

\* ------------------------------------------------------------------ schema types and instances
Other == [k |-> "other"]      \* a class member that is not a Field (a method, a constant)

RECURSIVE DeclaredFields(_)
\* {name: field for name, field in cls.__dict__.items() if isinstance(field, Field)}
DeclaredFields(body) ==
    IF body = <<>> THEN <<>>
    ELSE IF body[1][2].k = "field"
         THEN <<(<<body[1][1], body[1][2].ref>>)>> \o DeclaredFields(Tail(body))
         ELSE DeclaredFields(Tail(body))

\* Mutant: the declared fields are chained before the inherited ones.
SchemaMeta_init_declared_first(h, base, body, pl) ==
    LET base_fields == h.classes[base]._fields
        cls == [base |-> base,
                dict |-> body,
                post_load |-> IF pl = "inherit" THEN h.classes[base].post_load ELSE pl,
                _fields |-> DictUpdate(<<>>, DeclaredFields(body) \o base_fields)]
    IN [h EXCEPT !.classes = Append(@, cls)]

\* Mutant: the inherited dict is updated in place and shared with the subclass.
SchemaMeta_init_in_place(h, base, body, pl) ==
    LET merged == DictUpdate(h.classes[base]._fields, DeclaredFields(body))
        cls == [base |-> base,
                dict |-> body,
                post_load |-> IF pl = "inherit" THEN h.classes[base].post_load ELSE pl,
                _fields |-> merged]
    IN [h EXCEPT !.classes = Append([@ EXCEPT ![base]._fields = merged], cls)]

\* SchemaMeta.__init__ for `class X(base): <body>`: the heap with the new type appended.
\* pl is the body's post_load ("inherit" when the body defines none).
SchemaMeta_init(h, base, body, pl) ==
    LET base_fields == h.classes[base]._fields
        cls == [base |-> base,
                dict |-> body,
                post_load |-> IF pl = "inherit" THEN h.classes[base].post_load ELSE pl,
                _fields |-> DictUpdate(<<>>, base_fields \o DeclaredFields(body))]
    IN [h EXCEPT !.classes = Append(@, cls)]

RECURSIVE Schema_init_loop(_, _, _)
\* The loop of Schema.__init__ over kwargs.items(), on the instance being constructed.
\* self.context is the instance's own dict once the `context` keyword has been set,
\* and the class attribute Schema.context before that.
Schema_init_loop(h, self, kwargs) ==
    IF kwargs = <<>> THEN [h EXCEPT !.instances = Append(@, self)]
    ELSE LET key == kwargs[1][1]
             value == kwargs[1][2]
         IN CASE key = "dict_type" ->
                   Schema_init_loop(h, [self EXCEPT !.dict_type = value], Tail(kwargs))
              [] key = "ignore_missing" ->
                   Schema_init_loop(h, [self EXCEPT !.ignore_missing = value], Tail(kwargs))
              [] key = "context" ->
                   Schema_init_loop(h, [self EXCEPT !.own_context = TRUE, !.context = value],
                                    Tail(kwargs))
              [] OTHER ->
                   IF self.own_context
                   THEN Schema_init_loop(h, [self EXCEPT !.context = DictSet(@, "key", value)],
                                         Tail(kwargs))
                   ELSE Schema_init_loop([h EXCEPT !.Schema_context = DictSet(@, "key", value)],
                                         self, Tail(kwargs))

\* Schema.__init__(self, **kwargs) on a new instance of schema type cls.
Schema_init(h, cls, kwargs) ==
    Schema_init_loop(h, [cls |-> cls, ignore_missing |-> FALSE, dict_type |-> "dict",
                         own_context |-> FALSE, context |-> <<>>], kwargs)

\* The context dict seen through instance s.
Context(s) == IF instances[s].own_context THEN instances[s].context ELSE Schema_context

\* ------------------------------------------------------------------ actions
SetHeap(h) ==
    /\ fields' = h.fields
    /\ given' = h.given
    /\ Field_meta' = h.Field_meta
    /\ classes' = h.classes
    /\ instances' = h.instances
    /\ Schema_context' = h.Schema_context

\* The objects constructed so far (Schema itself is not counted).
Objects == Len(fields) + (Len(classes) - 1) + Len(instances)

CastRefOk(cast) ==
    CASE cast.k = "field" -> cast.ref \in DOMAIN fields
      [] cast.k = "schema" -> cast.ref \in DOMAIN instances
      [] cast.k = "schemacls" -> cast.ref \in DOMAIN classes
      [] OTHER -> TRUE

\* A descriptor is constructed: Field(path, cast, **kwargs), Attribute(path, attr=..), ...
NewField(cls, path, cast, attr, kwargs) ==
    /\ Objects < MaxObjects
    /\ CastRefOk(cast)
    /\ SetHeap(Construct(Heap, cls, path, cast, attr, kwargs))
    /\ UNCHANGED <<calls, result>>

\* A schema type is defined: class X(base): <body>
DefineSchema(base, body, pl) ==
    /\ Objects < MaxObjects
    /\ base \in DOMAIN classes
    /\ \A i \in DOMAIN body : body[i][2].k = "field" => body[i][2].ref \in DOMAIN fields
    /\ SetHeap(SchemaMeta_init(Heap, base, body, pl))
    /\ UNCHANGED <<calls, result>>

\* A schema instance is constructed: X(**kwargs)
NewSchema(cls, kwargs) ==
    /\ Objects < MaxObjects
    /\ cls \in DOMAIN classes
    /\ SetHeap(Schema_init(Heap, cls, kwargs))
    /\ UNCHANGED <<calls, result>>

\* schema.load(xml) is called from outside
CallSchemaLoad(s, xml) ==
    /\ calls < MaxCalls
    /\ s \in DOMAIN instances
    /\ \E r \in {Schema_load(s, xml, World(calls))} :
          /\ result' = [op |-> "Schema.load", on |-> s, xml |-> xml, before |-> calls, out |-> r]
          /\ calls' = r.w.calls
    /\ UNCHANGED <<fields, given, Field_meta, classes, instances, Schema_context>>

\* field.load(tag) is called from outside
CallFieldLoad(d, tag) ==
    /\ calls < MaxCalls
    /\ d \in DOMAIN fields
    /\ \E r \in {Field_load(d, tag, World(calls))} :
          /\ result' = [op |-> "Field.load", on |-> d, xml |-> ElemInput(tag), before |-> calls,
                        out |-> r]
          /\ calls' = r.w.calls
    /\ UNCHANGED <<fields, given, Field_meta, classes, instances, Schema_context>>

NoResult == [op |-> "none", on |-> 0, xml |-> Malformed, before |-> 0, out |-> Ok(None, World(0))]

InitHeap(h) ==
    /\ fields = h.fields
    /\ given = h.given
    /\ Field_meta = h.Field_meta
    /\ classes = h.classes
    /\ instances = h.instances
    /\ Schema_context = h.Schema_context
    /\ calls = 0
    /\ result = NoResult

\* ------------------------------------------------------------------ the nested parts
\* class CDSchema(Schema):
\*     a = Field('A', int)
\*     b = Field('B', default='n/a')
\* cd = CDSchema()
\* Descriptors 1 and 2, schema type 2 and schema instance 1 of every configuration below.
CDHeap ==
    LET h1 == Construct(EmptyHeap, "Field", XPath("A"), Prim("int"), "None", <<>>)
        h2 == Construct(h1, "Field", XPath("B"), CastNone, "None",
                        <<(<<"default", Literal(StrV("n/a"))>>)>>)
        h3 == SchemaMeta_init(h2, 1, <<(<<"a", FieldObj(1)>>), (<<"b", FieldObj(2)>>)>>, "inherit")
    IN Schema_init(h3, 2, <<>>)

\* ------------------------------------------------------------------ Field.load on one descriptor
Kw(key, value) == <<(<<key, value>>)>>

ManyKw == {<<>>, Kw("many", TRUE)}
DefaultKw == {Kw("default", Literal(None)),
              Kw("default", Literal(StrV("n/a"))),
              Kw("default", Producer("counter")),
              Kw("default", ExcInst(Err("KeyError", <<Lit("custom")>>))),
              Kw("default", ExcClass("LookupError"))}
CastArgs == {CastNone, Prim("int"), Func("tag_text"), FieldObj(1), SchemaObj(1), SchemaCls(2)}

Call(cls, path, cast, attr, kwargs) ==
    [cls |-> cls, path |-> path, cast |-> cast, attr |-> attr, kwargs |-> kwargs]

\* The constructor calls the descriptor under test is drawn from.
FieldCalls ==
    {Call(cls, IF cls = "First" THEN XPaths(<<"B", "A">>) ELSE XPath("A"), cast, "None", m) :
        cls \in {"Field", "First"}, cast \in CastArgs, m \in ManyKw}
    \cup {Call(cls, IF cls = "First" THEN XPaths(<<"B", "A">>) ELSE XPath("A"), CastNone, "None",
               m \o dk) :
        cls \in {"Field", "First"}, m \in ManyKw, dk \in DefaultKw}
    \cup {Call("List", XPath("A"), Prim("float"), "None", <<>>),
          Call("Nested", XPath("A"), SchemaObj(1), "None", Kw("many", TRUE)),
          Call("Nested", XPath("A"), SchemaCls(2), "None", Kw("many", TRUE)),
          Call("Attribute", XPath("A"), Prim("int"), "id", Kw("many", TRUE)),
          Call("Field", XPath("A"), Func("fail"), "None", Kw("many", FALSE)),
          Call("Boolean", XPath("A"), CastNone, "None", Kw("many", TRUE))}

InitField ==
    \E c \in FieldCalls : InitHeap(Construct(CDHeap, c.cls, c.path, c.cast, c.attr, c.kwargs))

\* The descriptor under test is the last one constructed.
NextField == \E tag \in Trees : CallFieldLoad(Len(fields), tag)

SpecField == InitField /\ [][NextField]_vars

\* ------------------------------------------------------------------ claims about Field.load
\* The elements the path of descriptor d matches under root, in document order (for
\* First: the matches of the first of its paths that matches anything).
MatchedBy(d, root) ==
    IF fields[d].cls = "First"
    THEN FirstTags(root, fields[d].path.xpaths)
    ELSE xpath(root, fields[d].path.xpath)

FieldCalled == result.op = "Field.load"
Matched == MatchedBy(result.on, result.xml.e)
\* What extracting the i-th matched element alone gives.
Extracted(i) == Field_extract(result.on, Matched[i], World(result.before))

\* C3, as stated: a many=true field whose load returns, returns a sequence as long as the
\* number of elements its path matched, zero included.
C3_AsClaimed ==
    (FieldCalled /\ fields[result.on].many /\ result.out.ok)
        => /\ result.out.val.t = "list"
           /\ Len(result.out.val.items) = Len(Matched)

\* C3, amended: a many=true field that matched N >= 1 elements and whose load returns,
\* returns the sequence of the N extracted values in document order; with zero matched
\* elements load returns only what a literal or producer default resolves to.
C3_ManyLength ==
    (FieldCalled /\ fields[result.on].many /\ result.out.ok)
        => IF Matched # <<>>
           THEN /\ result.out.val.t = "list"
                /\ Len(result.out.val.items) = Len(Matched)
                /\ \A i \in DOMAIN Matched : result.out.val.items[i] = Extracted(i).val
           ELSE fields[result.on].default.k \in {"value", "producer"}

\* C3, witness: a many=true field returned two different values for two matches.
C3_Witness ==
    /\ FieldCalled /\ fields[result.on].many /\ result.out.ok
    /\ Len(Matched) >= 2
    /\ Len(result.out.val.items) = Len(Matched)
    /\ result.out.val.items[1] # result.out.val.items[2]

\* C4: with zero matched elements, Field.load resolves the default by the first case that
\* applies: an error instance is raised as it is; an error kind is raised as a new error
\* of that kind whose message names the field's path; a producer is invoked on this very
\* call and its fresh output returned; anything else is returned verbatim.
C4_DefaultResolution ==
    (FieldCalled /\ Matched = <<>>)
        => LET default == fields[result.on].default
               out == result.out
           IN CASE default.k = "exc_inst" -> ~out.ok /\ out.err = default.err
                [] default.k = "exc_class" ->
                     /\ ~out.ok
                     /\ out.err.cls = default.cls
                     /\ \E i \in DOMAIN out.err.msg : out.err.msg[i] = fields[result.on].path
                [] default.k = "producer" ->
                     /\ out.ok
                     /\ out.w.calls = result.before + 1
                     /\ out.val = IntV(result.before + 1)
                [] OTHER -> out.ok /\ out.val = default.v /\ out.w.calls = result.before

\* C4, witness: a second call on a producer default: the producer has run before and runs again.
C4_Witness ==
    /\ FieldCalled /\ Matched = <<>>
    /\ fields[result.on].default.k = "producer"
    /\ result.before >= 1
    /\ result.out.val = IntV(result.before + 1)

LoggedExtracts == SelectSeq(result.out.w.log, LAMBDA ev : ev.e = "extract" /\ ev.d = result.on)

\* C5, as stated: a many=false field whose path matches two or more elements returns the
\* value extracted from the first of them, whatever extraction does on the later ones,
\* for the base Field and for First alike.
C5_AsClaimed ==
    (FieldCalled /\ ~fields[result.on].many /\ Len(Matched) >= 2 /\ Extracted(1).ok)
        => result.out.ok /\ result.out.val = Extracted(1).val

\* C5, amended: the base variants extract the first matched element only and return its
\* value; First extracts every element of the winning path in order, returns the first
\* value when all of those extractions succeed, and otherwise raises the error of the
\* first extraction that fails.
C5_FirstValue ==
    (FieldCalled /\ ~fields[result.on].many /\ Len(Matched) >= 2 /\ Extracted(1).ok)
        => IF fields[result.on].cls # "First"
           THEN /\ result.out.ok /\ result.out.val = Extracted(1).val
                /\ Len(LoggedExtracts) = 1
           ELSE IF \A i \in DOMAIN Matched : Extracted(i).ok
                THEN /\ result.out.ok /\ result.out.val = Extracted(1).val
                     /\ Len(LoggedExtracts) = Len(Matched)
                ELSE LET j == CHOOSE i \in DOMAIN Matched :
                                 ~Extracted(i).ok /\ \A k \in 1..(i - 1) : Extracted(k).ok
                     IN ~result.out.ok /\ result.out.err = Extracted(j).err

\* C5, witness: First, many=false, two matches with different values, both extracted, the first returned.
C5_Witness ==
    /\ FieldCalled /\ ~fields[result.on].many /\ fields[result.on].cls = "First"
    /\ Len(Matched) >= 2 /\ Len(LoggedExtracts) = Len(Matched)
    /\ Extracted(1).ok /\ Extracted(2).ok /\ Extracted(1).val # Extracted(2).val
    /\ result.out.ok /\ result.out.val = Extracted(1).val

\* An instance of schema type c.
InstanceOf(c) == CHOOSE s \in DOMAIN instances : instances[s].cls = c

\* The schema a descriptor's cast names: the instance itself, or an instance of the type.
CastSchema(d) ==
    IF fields[d].cast.k = "schema" THEN fields[d].cast.ref ELSE InstanceOf(fields[d].cast.ref)

\* C8: a many=true field whose cast is a schema (an instance, or the schema type as the
\* test passes it) and whose path matches N >= 1 elements, each loadable by that schema,
\* returns the N mappings the schema's load gives on each element, in document order.
C8_NestedSchema ==
    (/\ FieldCalled
     /\ fields[result.on].cast.k \in {"schema", "schemacls"}
     /\ fields[result.on].many
     /\ Matched # <<>>
     /\ \A i \in DOMAIN Matched :
           Schema_load(CastSchema(result.on), ElemInput(Matched[i]), World(0)).ok)
        => /\ result.out.ok
           /\ result.out.val.t = "list"
           /\ Len(result.out.val.items) = Len(Matched)
           /\ \A i \in DOMAIN Matched :
                 result.out.val.items[i] =
                     Schema_load(CastSchema(result.on), ElemInput(Matched[i]), World(0)).val

\* ------------------------------------------------------------------ Schema.load on one schema
RequiredKw == {<<>>, Kw("required", "False"), Kw("required", "True")}

\* The constructor calls the first two fields of the schema under test are drawn from.
LoadCalls ==
    {Call(c.cls, c.path, c.cast, c.attr, c.kwargs \o rq) :
        c \in {Call("Field", XPath("A"), Prim("int"), "None", <<>>),
               Call("Attribute", XPath("A"), CastNone, "id", <<>>),
               Call("Nested", XPath("A"), SchemaObj(1), "None", <<>>),
               Call("Field", XPath("B"), CastNone, "None", Kw("default", Literal(StrV("n/a")))),
               Call("Field", XPath("B"), CastNone, "None", Kw("default", ExcClass("LookupError")))},
        rq \in RequiredKw}

\* The constructor calls its last field is drawn from.
LastCalls ==
    {Call("Field", XPath("A"), Prim("int"), "None", <<>>),
     Call("Field", XPath("B"), CastNone, "None", Kw("default", Producer("counter")))}

\* class Tested(Schema):
\*     x = <c1>; y = <c2>; z = <c3>          (and post_load, when pl is not "inherit")
\* tested = Tested(ignore_missing=im)
\* on top of CDHeap: descriptors 3 to 5, schema type 3, schema instance 2.
TestedHeap(c1, c2, c3, pl, im) ==
    LET h1 == Construct(CDHeap, c1.cls, c1.path, c1.cast, c1.attr, c1.kwargs)
        h2 == Construct(h1, c2.cls, c2.path, c2.cast, c2.attr, c2.kwargs)
        h3 == Construct(h2, c3.cls, c3.path, c3.cast, c3.attr, c3.kwargs)
        h4 == SchemaMeta_init(h3, 1, <<(<<"x", FieldObj(3)>>), (<<"y", FieldObj(4)>>),
                                       (<<"z", FieldObj(5)>>)>>, pl)
    IN Schema_init(h4, 3, Kw("ignore_missing", im))

InitLoad ==
    \E c1 \in LoadCalls, c2 \in LoadCalls, c3 \in LastCalls,
       pl \in {"inherit", "returns_none"}, im \in BOOLEAN :
        InitHeap(TestedHeap(c1, c2, c3, pl, im))

Inputs == {ElemInput(t) : t \in Trees} \cup {TextInput(t) : t \in Trees} \cup {Malformed}

\* The schema under test is the last instance constructed; it is loaded once.
NextLoad ==
    \E xml \in Inputs : result.op = "none" /\ CallSchemaLoad(Len(instances), xml)

SpecLoad == InitLoad /\ [][NextLoad]_vars

\* ------------------------------------------------------------------ claims about Schema.load
SchemaCalled == result.op = "Schema.load"
Registry(s) == classes[instances[s].cls]._fields
\* What the loop of the called schema did to its own fields, in order.
FieldEvents == SelectSeq(result.out.w.log, LAMBDA ev : ev.e = "field" /\ ev.s = result.on)
PostLoads == SelectSeq(result.out.w.log, LAMBDA ev : ev.e = "post_load" /\ ev.s = result.on)
Missing(ev) == ~ev.ok /\ ev.err = "MissingFieldError"
\* The policy of the claim, from the instance's and the descriptor's attributes.
MaySuppress(ev) == instances[result.on].ignore_missing /\ fields[ev.d].required # "True"

\* C1: a MissingFieldError of a field's load is suppressed (the name is left out of the
\* result and the next field is loaded) exactly when ignore_missing is true and required
\* is not True; in every other combination it is what Schema.load raises, at once.
C1_Suppression ==
    SchemaCalled =>
        \A i \in DOMAIN FieldEvents :
            Missing(FieldEvents[i]) =>
                IF MaySuppress(FieldEvents[i])
                THEN /\ i < Len(Registry(result.on)) => Len(FieldEvents) > i
                     /\ result.out.ok => ~HasKey(result.out.val.items, FieldEvents[i].name)
                     /\ result.out.src = "field" => i < Len(FieldEvents)
                ELSE /\ i = Len(FieldEvents)
                     /\ ~result.out.ok
                     /\ result.out.src = "field"
                     /\ result.out.err.cls = "MissingFieldError"

\* C1, witness: suppressed on the first field, load went on and returned without that name.
C1_Witness ==
    /\ SchemaCalled /\ result.out.ok
    /\ Len(FieldEvents) = 3
    /\ Missing(FieldEvents[1]) /\ fields[FieldEvents[1].d].required = "False"
    /\ ~HasKey(result.out.val.items, "x")
    /\ HasKey(result.out.val.items, "y")

\* C2, as stated: an error raised inside a field's extract step on a matched element,
\* whatever its kind, is never suppressed: the load raises.
C2_AsClaimed ==
    SchemaCalled =>
        \A i \in DOMAIN FieldEvents :
            (~FieldEvents[i].ok /\ FieldEvents[i].src = "extract")
                => /\ ~result.out.ok
                   /\ i = Len(FieldEvents)

\* C2, amended: an error raised inside a field's extract step that is not a
\* MissingFieldError always ends the load with that error, whatever ignore_missing and
\* required are; a MissingFieldError raised inside extract (an absent attribute, a nested
\* load that found nothing) is handled exactly as one raised for zero matches.
C2_ExtractErrors ==
    SchemaCalled =>
        \A i \in DOMAIN FieldEvents :
            (~FieldEvents[i].ok /\ FieldEvents[i].src = "extract")
                => IF FieldEvents[i].err # "MissingFieldError" \/ ~MaySuppress(FieldEvents[i])
                   THEN /\ ~result.out.ok
                        /\ result.out.src = "field"
                        /\ result.out.err.cls = FieldEvents[i].err
                        /\ i = Len(FieldEvents)
                   ELSE /\ i < Len(Registry(result.on)) => Len(FieldEvents) > i
                        /\ result.out.ok => ~HasKey(result.out.val.items, FieldEvents[i].name)

\* C2, witness: a ValueError from a cast under ignore_missing=true and required unset: the load raises it.
C2_Witness ==
    /\ SchemaCalled /\ instances[result.on].ignore_missing
    /\ \E i \in DOMAIN FieldEvents :
          /\ FieldEvents[i].src = "extract" /\ FieldEvents[i].err = "ValueError"
          /\ fields[FieldEvents[i].d].required = "None"
          /\ i = 2
    /\ ~result.out.ok /\ result.out.err.cls = "ValueError"

Unsuppressed(ev) == ~ev.ok /\ ~(ev.err = "MissingFieldError" /\ MaySuppress(ev))

\* C9: Schema.load loads the fields in registry order; the first unsuppressed error of a
\* field ends the call: no later field is loaded, post_load is not invoked, and the call
\* raises that error and returns no mapping. Without such an error every field is loaded
\* and post_load is invoked once, after all of them.
C9_FirstErrorAborts ==
    (SchemaCalled /\ result.out.src # "parse") =>
        /\ Len(FieldEvents) <= Len(Registry(result.on))
        /\ \A i \in DOMAIN FieldEvents :
              /\ FieldEvents[i].name = Registry(result.on)[i][1]
              /\ FieldEvents[i].d = Registry(result.on)[i][2]
              /\ Unsuppressed(FieldEvents[i]) => i = Len(FieldEvents)
        /\ IF \E i \in DOMAIN FieldEvents : Unsuppressed(FieldEvents[i])
           THEN /\ ~result.out.ok
                /\ result.out.err.cls = FieldEvents[Len(FieldEvents)].err
                /\ result.out.val = None
                /\ PostLoads = <<>>
           ELSE /\ Len(FieldEvents) = Len(Registry(result.on))
                /\ Len(PostLoads) = 1
                /\ result.out.w.log[Len(result.out.w.log)].e = "post_load"

\* C9, witness: the second of three fields raised an unsuppressed error: the third was never loaded.
C9_Witness ==
    /\ SchemaCalled /\ ~result.out.ok
    /\ Len(FieldEvents) = 2 /\ Len(Registry(result.on)) = 3
    /\ FieldEvents[1].ok /\ Unsuppressed(FieldEvents[2])
    /\ PostLoads = <<>>

\* ------------------------------------------------------------------ the lifecycle of schema types
\* count = Field('A', int, label='count')
\* unit = Field('B', default='n/a', unit='kg', since=7)
\* Descriptors 1 and 2 of every run below.
PoolHeap ==
    LET h1 == Construct(EmptyHeap, "Field", XPath("A"), Prim("int"), "None",
                        Kw("label", StrV("count")))
    IN Construct(h1, "Field", XPath("B"), CastNone, "None",
                 Kw("default", Literal(StrV("n/a"))) \o Kw("unit", StrV("kg"))
                     \o Kw("since", IntV(7)))

Decl(name, d) == <<name, FieldObj(d)>>
\* The class bodies of a run: they declare the names x and y, one or both, in either order.
Bodies ==
    {<<Decl("x", 1)>>,
     <<Decl("y", 2)>>,
     <<Decl("y", 1), Decl("x", 2)>>,
     <<Decl("x", 2), Decl("y", 1)>>}

SchemaKwargs == {<<>>, Kw("ignore_missing", TRUE) \o Kw("strict", BoolV(TRUE))}

\* The documents of a run: those with at most one child, under A.
SmallInputs ==
    {ElemInput(t) : t \in {u \in Trees : u.kids["B"] = <<>> /\ Len(u.kids["A"]) <= 1}}
    \cup {Malformed}

Init == InitHeap(PoolHeap)

Next ==
    \/ \E base \in DOMAIN classes, body \in Bodies : DefineSchema(base, body, "inherit")
    \/ \E cls \in DOMAIN classes, kwargs \in SchemaKwargs : NewSchema(cls, kwargs)
    \/ \E s \in DOMAIN instances, xml \in SmallInputs : CallSchemaLoad(s, xml)
    \/ \E d \in DOMAIN fields, xml \in SmallInputs \ {Malformed} : CallFieldLoad(d, xml.e)

Spec == Init /\ [][Next]_vars

\* ------------------------------------------------------------------ the construction of descriptors
MetaMenu ==
    {Call("Field", XPath("A"), CastNone, "None", <<>>),
     Call("Field", XPath("A"), Prim("int"), "None", Kw("label", StrV("count"))),
     Call("List", XPath("B"), CastNone, "None",
          Kw("required", "True") \o Kw("unit", StrV("kg")) \o Kw("since", IntV(7))),
     Call("Attribute", XPath("A"), CastNone, "id", Kw("label", StrV("id"))),
     Call("Attribute", XPath("A"), CastNone, "None", Kw("unit", StrV("cm")))}

InitMeta == InitHeap(EmptyHeap)

NextMeta == \E c \in MetaMenu : NewField(c.cls, c.path, c.cast, c.attr, c.kwargs)

SpecMeta == InitMeta /\ [][NextMeta]_vars

\* ------------------------------------------------------------------ claims about the registry
\* C6: the registry of a subclass lists the inherited names first, in the base registry's
\* order, then the names its body newly declares, in declaration order; a redeclared name
\* keeps its inherited position and is bound to the subclass's descriptor; and the mapping
\* Schema.load returns iterates in the order of the registry.
C6_RegistryOrder ==
    /\ \A c \in DOMAIN classes \ {1} :
          LET reg == classes[c]._fields
              inherited == classes[classes[c].base]._fields
              declared == DeclaredFields(classes[c].dict)
              fresh == SelectSeq(Keys(declared), LAMBDA n : ~HasKey(inherited, n))
          IN /\ Keys(reg) = Keys(inherited) \o fresh
             /\ \A i \in DOMAIN reg :
                   reg[i][2] = IF HasKey(declared, reg[i][1]) THEN Get(declared, reg[i][1])
                               ELSE Get(inherited, reg[i][1])
    /\ (result.op = "Schema.load" /\ result.out.ok)
          => Keys(result.out.val.items) =
                SelectSeq(Keys(Registry(result.on)),
                          LAMBDA n : HasKey(result.out.val.items, n))

\* C6, witness: a type two definitions below Schema whose body declares a new name before it redeclares
\* an inherited one, and a load of an instance of it that returned both.
C6_Witness ==
    \E c \in DOMAIN classes :
        /\ classes[c].base # 1
        /\ Len(classes[c].dict) = 2
        /\ ~HasKey(classes[classes[c].base]._fields, classes[c].dict[1][1])
        /\ HasKey(classes[classes[c].base]._fields, classes[c].dict[2][1])
        /\ Get(classes[classes[c].base]._fields, classes[c].dict[2][1]) # classes[c].dict[2][2].ref
        /\ result.op = "Schema.load" /\ result.out.ok
        /\ instances[result.on].cls = c
        /\ Len(result.out.val.items) = 2

\* C10: a step never changes the registry of a schema type defined before it, and a load,
\* returning or raising, changes no descriptor, no schema instance and no class-level
\* attribute they read (Field.meta, Schema.context).
C10_RegistryFrozen ==
    [][/\ \A c \in DOMAIN classes : c \in DOMAIN classes' /\ classes'[c] = classes[c]
       /\ Objects' = Objects
             => /\ fields' = fields
                /\ Field_meta' = Field_meta
                /\ instances' = instances
                /\ Schema_context' = Schema_context]_vars

\* C10, witness: a type, a subtype with a longer registry defined after it, and a failed load of an instance.
C10_Witness ==
    /\ Len(classes) >= 3
    /\ classes[3].base = 2
    /\ Len(classes[3]._fields) > Len(classes[2]._fields)
    /\ result.op = "Schema.load" /\ ~result.out.ok /\ result.out.src = "field"

\* C7: each descriptor's meta holds exactly the extra keyword arguments its own constructor
\* call was passed.
C7_MetaPerInstance ==
    \A d \in DOMAIN fields : Meta(d) = given[d]

====
